---- MODULE Spec2Model ----
(***************************************************************************)
(* GameCharacter (src/main.cpp): a validated entity with two process-wide  *)
(* counters, uniqueId (total created / next identity) and ObjectCount      *)
(* (live instances).  Strings are sequences of character codes so that the *)
(* range tests of validateName and the rendering of toString are computed  *)
(* as the code computes them.                                              *)
(***************************************************************************)
EXTENDS Integers, Sequences, FiniteSets, TLC

MAX_NAME == 32
MAX_HEALTH == 1000
MAX_POWER == 500

\* Bounds of the model.
MaxObjects == 2
MaxLen == 3

VARIABLES objs, uniqueId, ObjectCount, pc, call, result, cur, written, vname, verr

vars == <<objs, uniqueId, ObjectCount, pc, call, result, cur, written, vname, verr>>

(***************************************************************************)
(* Character codes.                                                        *)
(***************************************************************************)
NUL == 0
SP == 32
UpA == 65
UpZ == 90
LoA == 97
LoZ == 122

\* "Name", "B", "Jack", "bob", "Leonardo da Vinci" as character codes.
StrName == <<78, 97, 109, 101>>
StrB == <<66>>
StrJack == <<74, 97, 99, 107>>
StrBob == <<98, 111, 98>>
StrLeonardo == <<76, 101, 111, 110, 97, 114, 100, 111, 32, 100, 97, 32, 86, 105, 110, 99, 105>>

(***************************************************************************)
(* validateName, lines 219-245.  Returns "ok" or the kind of the exception *)
(* thrown.  CharAt(s, i) is characterName[i] for the 0-based i of the      *)
(* code; position length() reads the terminator '\0'.                      *)
(***************************************************************************)
CharAt(s, i) == IF i < Len(s) THEN s[i + 1] ELSE NUL

NotLetter(c) == (c < UpA \/ c > UpZ) /\ (c < LoA \/ c > LoZ)

RECURSIVE ScanName(_, _, _)
ScanName(s, i, space) ==
    IF ~(i < Len(s)) THEN "ok"
    ELSE IF CharAt(s, i) = SP /\ CharAt(s, i + 1) = NUL THEN "NameTrailingSpace"
    ELSE IF NotLetter(CharAt(s, i))
         THEN IF CharAt(s, i) = SP /\ ~space THEN ScanName(s, i + 1, TRUE)
              ELSE IF space THEN "NameDoubleSpace"
              ELSE "NameInvalidCharacter"
    ELSE ScanName(s, i + 1, FALSE)

\* validateName with the length test off by one (>= for >).
validateNameShort(s) ==
    IF s = <<>> THEN "EmptyName"
    ELSE IF CharAt(s, 0) < UpA \/ CharAt(s, 0) > UpZ THEN "NameMustStartUppercase"
    ELSE IF Len(s) >= MAX_NAME THEN "NameTooLong"
    ELSE ScanName(s, 0, FALSE)

validateName(s) ==
    IF s = <<>> THEN "EmptyName"
    ELSE IF CharAt(s, 0) < UpA \/ CharAt(s, 0) > UpZ THEN "NameMustStartUppercase"
    ELSE IF Len(s) > MAX_NAME THEN "NameTooLong"
    ELSE ScanName(s, 0, FALSE)

\* validateHealth letting 0 through (< for <=).
validateHealthZero(h) ==
    IF h < 0 /\ h # -1 THEN "HealthOutOfRange"
    ELSE IF h > MAX_HEALTH THEN "HealthOutOfRange"
    ELSE "ok"

\* validateHealth, lines 186-193 (both throws are the HealthOutOfRange kind).
validateHealth(h) ==
    IF h <= 0 /\ h # -1 THEN "HealthOutOfRange"
    ELSE IF h > MAX_HEALTH THEN "HealthOutOfRange"
    ELSE "ok"

\* validateAttackPower with the limit off by one.
validateAttackPowerLoose(p) ==
    IF p > MAX_POWER + 1 THEN "AttackPowerTooHigh" ELSE "ok"

\* validateAttackPower, lines 204-208.
validateAttackPower(p) ==
    IF p > MAX_POWER THEN "AttackPowerTooHigh" ELSE "ok"

(***************************************************************************)
(* The setters, lines 71-74, 161-164, 172-175: validate, then assign.  A   *)
(* throw leaves the object as it was.                                      *)
(***************************************************************************)
\* setName assigning before it validates.
setNameEager(o, s) ==
    [obj |-> [o EXCEPT !.name = s], err |-> validateName(s)]

setName(o, s) ==
    LET e == validateName(s)
    IN  IF e # "ok" THEN [obj |-> o, err |-> e]
        ELSE [obj |-> [o EXCEPT !.name = s], err |-> "ok"]

\* setHealth without its validation.
setHealthUnchecked(o, h) ==
    [obj |-> [o EXCEPT !.health = h], err |-> "ok"]

setHealth(o, h) ==
    LET e == validateHealth(h)
    IN  IF e # "ok" THEN [obj |-> o, err |-> e]
        ELSE [obj |-> [o EXCEPT !.health = h], err |-> "ok"]

setAttackPower(o, p) ==
    LET e == validateAttackPower(p)
    IN  IF e # "ok" THEN [obj |-> o, err |-> e]
        ELSE [obj |-> [o EXCEPT !.attackPower = p], err |-> "ok"]

(***************************************************************************)
(* Accessors and toString, lines 80-116.                                   *)
(***************************************************************************)
getName(o) == o.name
getHealth(o) == o.health
getAttackPower(o) == o.attackPower
getPersonalId(o) == o.id

RECURSIVE DecDigits(_)
DecDigits(n) ==
    IF n < 10 THEN <<48 + n>> ELSE DecDigits(n \div 10) \o <<48 + (n % 10)>>

\* Decimal rendering that loses the sign.
ToDecUnsigned(n) == IF n < 0 THEN DecDigits(0 - n) ELSE DecDigits(n)

\* operator<<(int): decimal, with a leading '-' for negatives.
ToDec(n) == IF n < 0 THEN <<45>> \o DecDigits(0 - n) ELSE DecDigits(n)

toString(o) == o.name \o <<SP>> \o ToDec(o.health) \o <<SP>> \o ToDec(o.attackPower)

getObjectCount == ObjectCount
getIdCount == uniqueId

(***************************************************************************)
(* Inputs.                                                                 *)
(***************************************************************************)
\* Names given to the constructor and to setName in the lifecycle model:
\* "Name", "B", "", "bob", "B " (trailing space).
NameArgs == {StrName, StrB, <<>>, StrBob, <<66, 32>>}
HealthArgs == {-2, -1, 0, 1, MAX_HEALTH, MAX_HEALTH + 1}
PowerArgs == {-3, MAX_POWER, MAX_POWER + 1}

\* The object before any field is written: name is the empty string; the
\* ints are indeterminate and are never read before init writes them.
Blank == [name |-> <<>>, health |-> 0, attackPower |-> 0]

NoCall == [op |-> "none", name |-> <<>>, health |-> 0, attackPower |-> 0, h |-> 0,
           pre |-> [uniqueId |-> 0, ObjectCount |-> 0, nobjs |-> 0]]

\* The counters and the number of objects created, as a call finds them.
Pre == [uniqueId |-> uniqueId, ObjectCount |-> ObjectCount, nobjs |-> Len(objs)]

Live == {h \in 1..Len(objs) : objs[h].alive}

(***************************************************************************)
(* Initial state, lines 248-249.                                           *)
(***************************************************************************)
Init ==
    /\ objs = <<>>
    /\ uniqueId = 0
    /\ ObjectCount = 0
    /\ pc = "idle"
    /\ call = NoCall
    /\ result = "none"
    /\ cur = Blank
    /\ written = {}
    /\ vname = <<>>
    /\ verr = "unchecked"

(***************************************************************************)
(* Construction.  A constructor runs init (lines 145-151) statement by     *)
(* statement; pc is the statement about to run.                            *)
(***************************************************************************)
EnterCtor(op, n, h, p) ==
    /\ pc = "idle"
    /\ Len(objs) < MaxObjects
    /\ call' = [op |-> op, name |-> n, health |-> h, attackPower |-> p, h |-> 0, pre |-> Pre]
    /\ pc' = "setName"
    /\ result' = "pending"
    /\ cur' = Blank
    /\ written' = {}
    /\ UNCHANGED <<objs, uniqueId, ObjectCount, vname, verr>>

\* GameCharacter(), lines 39-41.
NewDefault == EnterCtor("createDefault", StrName, -1, 0)

\* GameCharacter(string, int, int), lines 51-53.
NewWith(n, h, p) == EnterCtor("createWith", n, h, p)

\* A throw that leaves the identity counter advanced.
CtorThrowsCounted(e) ==
    /\ pc' = "idle"
    /\ result' = e
    /\ cur' = Blank
    /\ written' = {}
    /\ uniqueId' = uniqueId + 1
    /\ UNCHANGED <<objs, ObjectCount>>

\* An exception leaves the constructor: the object never existed, its
\* destructor (lines 58-60) does not run.
CtorThrows(e) ==
    /\ pc' = "idle"
    /\ result' = e
    /\ cur' = Blank
    /\ written' = {}
    /\ UNCHANGED <<objs, uniqueId, ObjectCount>>

\* line 146
InitSetName ==
    /\ pc = "setName"
    /\ LET r == setName(cur, call.name)
       IN  IF r.err # "ok" THEN CtorThrows(r.err)
           ELSE /\ cur' = r.obj
                /\ written' = written \cup {"name"}
                /\ pc' = "setHealth"
                /\ UNCHANGED <<objs, uniqueId, ObjectCount, result>>
    /\ UNCHANGED <<call, vname, verr>>

\* line 147
InitSetHealth ==
    /\ pc = "setHealth"
    /\ LET r == setHealth(cur, call.health)
       IN  IF r.err # "ok" THEN CtorThrows(r.err)
           ELSE /\ cur' = r.obj
                /\ written' = written \cup {"health"}
                /\ pc' = "setAttackPower"
                /\ UNCHANGED <<objs, uniqueId, ObjectCount, result>>
    /\ UNCHANGED <<call, vname, verr>>

\* line 148
InitSetAttackPower ==
    /\ pc = "setAttackPower"
    /\ LET r == setAttackPower(cur, call.attackPower)
       IN  IF r.err # "ok" THEN CtorThrows(r.err)
           ELSE /\ cur' = r.obj
                /\ written' = written \cup {"attackPower"}
                /\ pc' = "assignId"
                /\ UNCHANGED <<objs, uniqueId, ObjectCount, result>>
    /\ UNCHANGED <<call, vname, verr>>

\* init assigning the id without advancing the counter.
InitAssignIdNoAdvance ==
    /\ pc = "assignId"
    /\ objs' = Append(objs, [id |-> uniqueId, alive |-> TRUE, name |-> cur.name,
                             health |-> cur.health, attackPower |-> cur.attackPower])
    /\ ObjectCount' = ObjectCount + 1
    /\ pc' = "idle"
    /\ result' = "ok"
    /\ cur' = Blank
    /\ written' = {}
    /\ UNCHANGED <<uniqueId, call, vname, verr>>

\* lines 149-150: id = uniqueId++; ++ObjectCount; the constructor returns.
InitAssignId ==
    /\ pc = "assignId"
    /\ objs' = Append(objs, [id |-> uniqueId, alive |-> TRUE, name |-> cur.name,
                             health |-> cur.health, attackPower |-> cur.attackPower])
    /\ uniqueId' = uniqueId + 1
    /\ ObjectCount' = ObjectCount + 1
    /\ pc' = "idle"
    /\ result' = "ok"
    /\ cur' = Blank
    /\ written' = {}
    /\ UNCHANGED <<call, vname, verr>>

(***************************************************************************)
(* setName on a live object, lines 71-74 (main, line 278).                 *)
(***************************************************************************)
SetName(h, s) ==
    /\ pc = "idle"
    /\ h \in Live
    /\ LET r == setName(objs[h], s)
       IN  /\ objs' = [objs EXCEPT ![h] = r.obj]
           /\ result' = r.err
    /\ call' = [op |-> "setName", name |-> s, health |-> 0, attackPower |-> 0, h |-> h, pre |-> Pre]
    /\ UNCHANGED <<uniqueId, ObjectCount, pc, cur, written, vname, verr>>

(***************************************************************************)
(* delete, lines 58-60 (main, line 293).  Only live objects are deleted;   *)
(* the storage is released, the model keeps the identity as a tombstone.   *)
(***************************************************************************)
Tombstone(o) ==
    [id |-> o.id, alive |-> FALSE, name |-> Blank.name, health |-> Blank.health,
     attackPower |-> Blank.attackPower]

DeleteNoDecrement(h) ==
    /\ pc = "idle"
    /\ h \in Live
    /\ objs' = [objs EXCEPT ![h] = Tombstone(objs[h])]
    /\ result' = "ok"
    /\ call' = [op |-> "dispose", name |-> <<>>, health |-> 0, attackPower |-> 0, h |-> h, pre |-> Pre]
    /\ UNCHANGED <<uniqueId, ObjectCount, pc, cur, written, vname, verr>>

Delete(h) ==
    /\ pc = "idle"
    /\ h \in Live
    /\ ObjectCount' = ObjectCount - 1
    /\ objs' = [objs EXCEPT ![h] = Tombstone(objs[h])]
    /\ result' = "ok"
    /\ call' = [op |-> "dispose", name |-> <<>>, health |-> 0, attackPower |-> 0, h |-> h, pre |-> Pre]
    /\ UNCHANGED <<uniqueId, pc, cur, written, vname, verr>>

Next ==
    \/ NewDefault
    \/ \E n \in NameArgs, h \in HealthArgs, p \in PowerArgs : NewWith(n, h, p)
    \/ InitSetName
    \/ InitSetHealth
    \/ InitSetAttackPower
    \/ InitAssignId
    \/ \E h \in 1..MaxObjects, s \in NameArgs : SetName(h, s)
    \/ \E h \in 1..MaxObjects : Delete(h)

Spec == Init /\ [][Next]_vars

(***************************************************************************)
(* validateName as a function of its argument: the name is drawn from all  *)
(* strings of length <= MaxLen over Alphabet, the same strings stretched   *)
(* to the lengths around MAX_NAME, and the names main uses.                *)
(***************************************************************************)
\* '\0', ' ', and the characters on both sides of 'A', 'Z', 'a', 'z'.
Alphabet == {NUL, SP, 64, UpA, UpZ, 91, 96, LoA, LoZ, 123}

ShortNames == UNION {[1..n -> Alphabet] : n \in 0..MaxLen}

\* s with lowercase letters inserted after its first character, up to length n.
Stretch(s, n) == <<s[1]>> \o [i \in 1..(n - Len(s)) |-> LoA] \o Tail(s)

NameInputs ==
    ShortNames
    \cup {Stretch(s, n) : s \in ShortNames \ {<<>>}, n \in {MAX_NAME - 1, MAX_NAME, MAX_NAME + 1}}
    \cup {StrName, StrB, StrJack, StrBob, StrLeonardo}

InitName ==
    /\ objs = <<>>
    /\ uniqueId = 0
    /\ ObjectCount = 0
    /\ pc = "idle"
    /\ call = NoCall
    /\ result = "none"
    /\ cur = Blank
    /\ written = {}
    /\ vname \in NameInputs
    /\ verr = "unchecked"

CheckName ==
    /\ verr = "unchecked"
    /\ verr' = validateName(vname)
    /\ UNCHANGED <<objs, uniqueId, ObjectCount, pc, call, result, cur, written, vname>>

NextName == CheckName

SpecName == InitName /\ [][NextName]_vars

(***************************************************************************)
(* The constraints of the specification, stated independently of the code. *)
(***************************************************************************)
IsLetter(c) == c \in UpA..UpZ \/ c \in LoA..LoZ

NameGrammar(s) ==
    /\ Len(s) > 0
    /\ s[1] \in UpA..UpZ
    /\ Len(s) <= MAX_NAME
    /\ \A i \in 1..Len(s) : IsLetter(s[i]) \/ s[i] = SP
    /\ \A i \in 1..(Len(s) - 1) : ~(s[i] = SP /\ s[i + 1] = SP)
    /\ s[Len(s)] # SP

HealthValid(h) == h = -1 \/ h \in 1..MAX_HEALTH

PowerValid(p) == p <= MAX_POWER

ValidTriple(n, h, p) == NameGrammar(n) /\ HealthValid(h) /\ PowerValid(p)

NameErrors == {"EmptyName", "NameMustStartUppercase", "NameTooLong",
               "NameTrailingSpace", "NameDoubleSpace", "NameInvalidCharacter"}

ErrorKinds == NameErrors \cup {"HealthOutOfRange", "AttackPowerTooHigh"}

CallValid == ValidTriple(call.name, call.health, call.attackPower)

Newest == objs[Len(objs)]

\* C1: a createWith with an invalid triple fails with an error, creates no
\* entity, and leaves uniqueId and ObjectCount as they were before the call.
CreateWithInvalidFails ==
    (call.op = "createWith" /\ ~CallValid) =>
        /\ Len(objs) = call.pre.nobjs
        /\ getIdCount = call.pre.uniqueId
        /\ getObjectCount = call.pre.ObjectCount
        /\ pc # "assignId"
        /\ pc = "idle" => result \in ErrorKinds

CreateWithInvalidFailsWitness ==
    /\ pc = "idle"
    /\ call.op = "createWith"
    /\ NameGrammar(call.name) /\ ~HealthValid(call.health)
    /\ result = "HealthOutOfRange"
    /\ uniqueId = 1
    /\ ObjectCount = 1

\* C2: the successful creations receive the identities 0, 1, 2, ... in
\* creation order whatever fails or is renamed or disposed in between; no two
\* entities, live or disposed, share an identity; an identity never changes.
IdsInOrder ==
    /\ \A i \in 1..Len(objs) : getPersonalId(objs[i]) = i - 1
    /\ \A i, j \in 1..Len(objs) : i # j => getPersonalId(objs[i]) # getPersonalId(objs[j])
    /\ (pc = "idle" /\ call.op \in {"createWith", "createDefault"} /\ result = "ok") =>
           getPersonalId(Newest) = call.pre.uniqueId

IdsStable == \A i \in 1..Len(objs) : getPersonalId(objs'[i]) = getPersonalId(objs[i])

IdentitySequence == [](IdsInOrder) /\ [][IdsStable]_vars

IdentitySequenceWitness ==
    /\ Len(objs) = 2
    /\ ~objs[1].alive
    /\ getPersonalId(objs[1]) = 0
    /\ getPersonalId(objs[2]) = 1
    /\ call.op = "setName" /\ result \in NameErrors

\* C3: ObjectCount is the number of constructed and not yet destroyed
\* entities, and is never negative.
LiveCountExact ==
    /\ getObjectCount = Cardinality(Live)
    /\ getObjectCount >= 0

LiveCountExactWitness ==
    /\ Len(objs) = 1
    /\ Live = {}
    /\ ObjectCount = 0
    /\ pc = "idle"
    /\ call.op = "createWith"
    /\ result \in ErrorKinds

\* C4: uniqueId is the number of successful constructions; it never
\* decreases; dispose, setName and a failed construction leave it unchanged,
\* and each dispose lowers ObjectCount by exactly one.
TotalCreatedStep ==
    /\ uniqueId' >= uniqueId
    /\ (pc = "idle" /\ pc' = "idle" /\ call'.op = "dispose") =>
           (uniqueId' = uniqueId /\ ObjectCount' = ObjectCount - 1)
    /\ (pc = "idle" /\ pc' = "idle" /\ call'.op = "setName") => uniqueId' = uniqueId
    /\ (pc # "idle" /\ pc' = "idle" /\ result' # "ok") => uniqueId' = uniqueId

TotalCreated == [](getIdCount = Len(objs)) /\ [][TotalCreatedStep]_vars

TotalCreatedWitness ==
    /\ uniqueId = 2
    /\ ObjectCount = 0
    /\ call.op = "dispose"
    /\ call.pre.ObjectCount = 1

(***************************************************************************)
(* Reading a rendered string back: the text after the last space is the    *)
(* attack power, the text between the last two spaces the health.          *)
(***************************************************************************)
LastSpace(r) == CHOOSE i \in 1..Len(r) : r[i] = SP /\ \A j \in (i + 1)..Len(r) : r[j] # SP

RECURSIVE ParseNat(_)
ParseNat(t) ==
    IF t = <<>> THEN 0 ELSE 10 * ParseNat(SubSeq(t, 1, Len(t) - 1)) + (t[Len(t)] - 48)

IsNumeral(t) ==
    LET d == IF t # <<>> /\ t[1] = 45 THEN Tail(t) ELSE t
    IN  d # <<>> /\ \A i \in 1..Len(d) : d[i] \in 48..57

ParseDec(t) == IF t[1] = 45 THEN 0 - ParseNat(Tail(t)) ELSE ParseNat(t)

Rendered(n, h, p, r) ==
    LET j == LastSpace(r)
        front == SubSeq(r, 1, j - 1)
        i == LastSpace(front)
        ht == SubSeq(front, i + 1, Len(front))
        pt == SubSeq(r, j + 1, Len(r))
    IN  /\ Cardinality({k \in 1..Len(r) : r[k] = SP}) >= 2
        /\ SubSeq(front, 1, i - 1) = n
        /\ IsNumeral(ht) /\ ParseDec(ht) = h
        /\ IsNumeral(pt) /\ ParseDec(pt) = p

\* "Name -1 0"
StrDefaultRendered == <<78, 97, 109, 101, 32, 45, 49, 32, 48>>

\* C5: a createWith with a valid triple succeeds, the accessors return the
\* inputs and toString is name, health and attackPower joined by single
\* spaces; createDefault always succeeds with "Name", -1, 0.
ValidCreateRoundTrip ==
    /\ (pc = "idle" /\ call.op = "createWith" /\ CallValid) =>
           /\ result = "ok"
           /\ Len(objs) = call.pre.nobjs + 1
           /\ Newest.alive
           /\ getName(Newest) = call.name
           /\ getHealth(Newest) = call.health
           /\ getAttackPower(Newest) = call.attackPower
           /\ Rendered(call.name, call.health, call.attackPower, toString(Newest))
    /\ (pc = "idle" /\ call.op = "createDefault") =>
           /\ result = "ok"
           /\ Len(objs) = call.pre.nobjs + 1
           /\ getName(Newest) = StrName
           /\ getHealth(Newest) = -1
           /\ getAttackPower(Newest) = 0
           /\ toString(Newest) = StrDefaultRendered

ValidCreateRoundTripWitness ==
    /\ pc = "idle"
    /\ call.op = "createWith"
    /\ result = "ok"
    /\ call.health = MAX_HEALTH
    /\ call.attackPower < 0
    /\ getHealth(Newest) = MAX_HEALTH

Offends(s, i) ==
    \/ ~IsLetter(s[i]) /\ s[i] # SP
    \/ s[i] = SP /\ i = Len(s)
    \/ s[i] = SP /\ i > 1 /\ s[i - 1] = SP

FirstOffence(s) == CHOOSE i \in 1..Len(s) : Offends(s, i) /\ \A j \in 1..(i - 1) : ~Offends(s, j)

NameErrorKindExact ==
    verr # "unchecked" =>
        /\ verr = "EmptyName" <=> vname = <<>>
        /\ verr = "NameMustStartUppercase" <=> (vname # <<>> /\ vname[1] \notin UpA..UpZ)
        /\ verr = "NameTooLong" <=>
               (vname # <<>> /\ vname[1] \in UpA..UpZ /\ Len(vname) > MAX_NAME)
        /\ verr = "NameTrailingSpace" => vname[Len(vname)] = SP
        /\ verr = "NameDoubleSpace" =>
               \E i \in 1..(Len(vname) - 1) : vname[i] = SP /\ vname[i + 1] = SP
        /\ (/\ vname # <<>> /\ vname[1] \in UpA..UpZ /\ Len(vname) <= MAX_NAME
            /\ \E i \in 1..Len(vname) : Offends(vname, i)
            /\ ~IsLetter(vname[FirstOffence(vname)]) /\ vname[FirstOffence(vname)] # SP)
               => verr = "NameInvalidCharacter"

\* C8: setName changes nothing but the name of its entity, and the name only
\* when the new name is valid; an invalid name fails and leaves the name.
SetNameStep ==
    (pc = "idle" /\ pc' = "idle" /\ call'.op = "setName") =>
        LET h == call'.h
            s == call'.name
        IN  /\ h \in Live
            /\ NameGrammar(s) => (result' = "ok" /\ getName(objs'[h]) = s)
            /\ ~NameGrammar(s) => (result' \in NameErrors /\ getName(objs'[h]) = getName(objs[h]))
            /\ Len(objs') = Len(objs)
            /\ \A j \in 1..Len(objs) : j # h => objs'[j] = objs[j]
            /\ objs'[h] = [objs[h] EXCEPT !.name = getName(objs'[h])]
            /\ uniqueId' = uniqueId
            /\ ObjectCount' = ObjectCount

SetNameFrame == [][SetNameStep]_vars

SetNameFrameWitness ==
    /\ pc = "idle"
    /\ call.op = "setName"
    /\ result = "NameTrailingSpace"
    /\ getName(objs[call.h]) = StrB
    /\ Len(objs) = 2

\* C9: every live entity has a name in the grammar, a health of -1 or in
\* 1..1000 and an attackPower of at most 500; health and attackPower never
\* change after construction.
LiveValid ==
    \A h \in Live :
        /\ NameGrammar(getName(objs[h]))
        /\ HealthValid(getHealth(objs[h]))
        /\ PowerValid(getAttackPower(objs[h]))

LiveFixedStep ==
    \A h \in Live :
        objs'[h].alive =>
            /\ getHealth(objs'[h]) = getHealth(objs[h])
            /\ getAttackPower(objs'[h]) = getAttackPower(objs[h])

LiveEntitiesValid == [](LiveValid) /\ [][LiveFixedStep]_vars

LiveEntitiesValidWitness ==
    /\ pc = "idle"
    /\ call.op = "setName"
    /\ result = "NameMustStartUppercase"
    /\ call.h \in Live
    /\ getHealth(objs[call.h]) = 1
    /\ getAttackPower(objs[call.h]) = MAX_POWER

(***************************************************************************)
(* C10.  The position in init tells which fields have been validated: the  *)
(* statements before pc have run their validations.                        *)
(***************************************************************************)
Validated ==
    CASE pc = "setName" -> {}
      [] pc = "setHealth" -> {"name"}
      [] pc = "setAttackPower" -> {"name", "health"}
      [] pc = "assignId" -> {"name", "health", "attackPower"}
      [] OTHER -> {}

FirstInvalid(n, h, p) ==
    IF ~NameGrammar(n) THEN "name"
    ELSE IF ~HealthValid(h) THEN "health"
    ELSE IF ~PowerValid(p) THEN "attackPower"
    ELSE "none"

ErrorField(e) ==
    IF e \in NameErrors THEN "name"
    ELSE IF e = "HealthOutOfRange" THEN "health"
    ELSE IF e = "AttackPowerTooHigh" THEN "attackPower"
    ELSE "none"

FirstErrorReported ==
    (pc = "idle" /\ call.op = "createWith") =>
        ErrorField(result) = FirstInvalid(call.name, call.health, call.attackPower)

\* C10 as stated: no field of the entity is written while a field of the
\* same call is still unvalidated, and the error is that of the first
\* invalid field.
AllValidatedBeforeWrite ==
    /\ (pc # "idle" /\ written # {}) => Validated = {"name", "health", "attackPower"}
    /\ FirstErrorReported

\* C10 as amended: each field is validated, in the order name, health,
\* attackPower, immediately before it is written, so a written field is
\* always a validated one; the identity is assigned only after all three
\* validated; the error is that of the first invalid field.
EachValidatedBeforeWrite ==
    /\ pc # "idle" => written = Validated
    /\ "name" \in written => (cur.name = call.name /\ NameGrammar(cur.name))
    /\ "health" \in written => (cur.health = call.health /\ HealthValid(cur.health))
    /\ "attackPower" \in written =>
           (cur.attackPower = call.attackPower /\ PowerValid(cur.attackPower))
    /\ pc = "assignId" => CallValid
    /\ pc # "idle" => (Len(objs) = call.pre.nobjs /\ uniqueId = call.pre.uniqueId)
    /\ FirstErrorReported

EachValidatedBeforeWriteWitness ==
    /\ pc = "setHealth"
    /\ call.op = "createWith"
    /\ written = {"name"}
    /\ ~HealthValid(call.health)
    /\ ~PowerValid(call.attackPower)

====
